---- MODULE Spec2Model ----
(***************************************************************************)
(* History screen of warung-order-app: src/app/(tabs)/history.tsx.         *)
(*                                                                         *)
(* The view holds a transient copy (transactions) of the persisted         *)
(* transactions (storage), reloads it on mount and on every screen focus,  *)
(* lets the user confirm goods receipt through an alert, and renders the   *)
(* copy grouped by local calendar date, newest date first.                 *)
(*                                                                         *)
(* Time is counted in hours since 1970-01-01T00:00Z.  A date key stands    *)
(* for the string "YYYY-MM-DD" and is the triple <<y, m, d>>.              *)
(***************************************************************************)
EXTENDS Integers, Sequences, FiniteSets, Bags, TLC

VARIABLES
    tz,            \* offset of the device's time zone from UTC, in hours
    storage,       \* the persisted transactions, in getTransactions() order
    transactions,  \* useState<Transaction[]>([])              (line 21)
    loading,       \* useState(true)                           (line 22)
    mounted,       \* the mount effects have run               (lines 24-33)
    route,         \* the route on top of the navigation stack
    loads,         \* bag of loadTransactions() calls in flight, started by an effect
    confirms,      \* bag of confirm onPress callbacks in flight (lines 63-86)
    alerts,        \* stack of open Alert.alert dialogs, topmost last
    shown          \* history: ids whose "receiptConfirmed" alert was shown

vars == <<tz, storage, transactions, loading, mounted, route, loads, confirms, alerts, shown>>

----------------------------------------------------------------------------
(* Bounds of the model. *)

MaxTx == 3        \* most transactions persisted
MaxLoads == 2     \* most effect-started loads in flight at once
MaxConfirms == 2  \* most confirmations (open prompt to final alert) at once

TxIds == <<"TX1", "TX2", "TX3", "TX4">>
TxTotals == <<50000, 20000, 75000, 5000>>

\* 2023-12-31T20:00Z, 2024-01-01T02:00Z, 2024-01-02T02:00Z
TxDates == {473348, 473354, 473378}
\* New York (winter), UTC, Jakarta
TZOffsets == {-5, 0, 7}
FirstDates == <<473378, 473348>>

----------------------------------------------------------------------------
(* Transaction, as the view reads and writes it. *)

Tx(id, date, total, receipt, receiptTotal) ==
    [transaction_id |-> id, date |-> date, total |-> total,
     has_good_receipt |-> receipt, good_receipt_total |-> receiptTotal]

\* A persisted transaction number k: an unconfirmed one carries no confirmed total.
StoredTx(k, date, receipt) ==
    Tx(TxIds[k], date, TxTotals[k], receipt, IF receipt THEN TxTotals[k] ELSE 0)

StoredLists ==
    UNION { { [k \in 1..n |-> StoredTx(k, d[k], r[k])] :
                d \in [1..n -> TxDates], r \in [1..n -> BOOLEAN] } : n \in 0..MaxTx }

----------------------------------------------------------------------------
(* Dates: new Date(x).toLocaleDateString('en-CA') and new Date(k + 'T00:00:00'). *)

\* The civil date of day number z (days since 1970-01-01).
CivilFromDays(z) ==
    LET s   == z + 719468
        era == s \div 146097
        doe == s - era * 146097
        yoe == (doe - doe \div 1460 + doe \div 36524 - doe \div 146096) \div 365
        doy == doe - (365 * yoe + yoe \div 4 - yoe \div 100)
        mp  == (5 * doy + 2) \div 153
        d   == doy - (153 * mp + 2) \div 5 + 1
        m   == IF mp < 10 THEN mp + 3 ELSE mp - 9
        y   == yoe + era * 400 + (IF m <= 2 THEN 1 ELSE 0)
    IN  <<y, m, d>>

\* toLocaleDateString('en-CA') of the instant `date`: the calendar date the
\* device's clock shows at that instant, as YYYY-MM-DD.
toLocaleDateString(date, offset) == CivilFromDays((date + offset) \div 24)

IsLeap(y) == (y % 4 = 0 /\ y % 100 # 0) \/ y % 400 = 0

DaysInMonth(y, m) ==
    IF m = 2 THEN (IF IsLeap(y) THEN 29 ELSE 28)
    ELSE IF m \in {4, 6, 9, 11} THEN 30 ELSE 31

RECURSIVE DaysBeforeMonth(_, _)
DaysBeforeMonth(y, m) ==
    IF m = 1 THEN 0 ELSE DaysBeforeMonth(y, m - 1) + DaysInMonth(y, m - 1)

\* Days from 1970-01-01 to January 1st of year y (y >= 1970).
DaysBeforeYear(y) ==
    LET p == y - 1
    IN  (p * 365 + p \div 4 - p \div 100 + p \div 400) - 719162

\* new Date(key + 'T00:00:00').getTime(): midnight of the key's date on the
\* device's clock.
getTime(key, offset) ==
    (DaysBeforeYear(key[1]) + DaysBeforeMonth(key[1], key[2]) + key[3] - 1) * 24 - offset

----------------------------------------------------------------------------
(* Rendering: groupedTransactions and sortedDates (lines 92-106). *)

\* The keys of the groups, in insertion order.
Keys(groups) == [i \in 1..Len(groups) |-> groups[i].date]

\* The reduce step with `groups[date] = [transaction]` in place of the push.
GroupStepOverwrites(groups, transaction, offset) ==
    LET date == toLocaleDateString(transaction.date, offset)
    IN  IF \E i \in 1..Len(groups) : groups[i].date = date
        THEN [i \in 1..Len(groups) |->
                IF groups[i].date = date
                THEN [groups[i] EXCEPT !.list = <<transaction>>]
                ELSE groups[i]]
        ELSE Append(groups, [date |-> date, list |-> <<transaction>>])

\* One step of the reduce: groups[date] is created when missing, then pushed to.
GroupStep(groups, transaction, offset) ==
    LET date == toLocaleDateString(transaction.date, offset)
    IN  IF \E i \in 1..Len(groups) : groups[i].date = date
        THEN [i \in 1..Len(groups) |->
                IF groups[i].date = date
                THEN [groups[i] EXCEPT !.list = Append(@, transaction)]
                ELSE groups[i]]
        ELSE Append(groups, [date |-> date, list |-> <<transaction>>])

RECURSIVE Reduce(_, _, _)
Reduce(groups, list, offset) ==
    IF list = <<>> THEN groups
    ELSE Reduce(GroupStep(groups, Head(list), offset), Tail(list), offset)

groupedTransactions(list, offset) == Reduce(<<>>, list, offset)

\* The comparator with a and b exchanged: an ascending sort.
CompareDatesAscending(a, b, offset) == getTime(a, offset) - getTime(b, offset)

\* The comparator of the sort: negative when a goes before b.
CompareDates(a, b, offset) == getTime(b, offset) - getTime(a, offset)

\* Insert key into the sorted sequence s, after the keys it does not precede.
RECURSIVE Insert(_, _, _)
Insert(s, key, offset) ==
    IF s = <<>> THEN <<key>>
    ELSE IF CompareDates(key, Head(s), offset) < 0 THEN <<key>> \o s
    ELSE <<Head(s)>> \o Insert(Tail(s), key, offset)

RECURSIVE Sort(_, _)
Sort(keys, offset) ==
    IF keys = <<>> THEN <<>>
    ELSE Insert(Sort(SubSeq(keys, 1, Len(keys) - 1), offset), keys[Len(keys)], offset)

sortedDates(list, offset) == Sort(Keys(groupedTransactions(list, offset)), offset)

----------------------------------------------------------------------------
(* The storage collaborator, '@/services/storage' (line 4). *)

\* getTransactions() when it resolves: all persisted transactions.
getTransactions(stored) == stored

\* saveTransaction(t) when it resolves: t replaces the persisted transaction
\* with its identifier, or is added when there is none.
saveTransaction(stored, t) ==
    IF \E i \in 1..Len(stored) : stored[i].transaction_id = t.transaction_id
    THEN [i \in 1..Len(stored) |->
            IF stored[i].transaction_id = t.transaction_id THEN t ELSE stored[i]]
    ELSE Append(stored, t)

----------------------------------------------------------------------------
(* The view. *)

History == <<"/(tabs)/history">>
OrderDetail(id) == <<"/order-detail?transactionId=", id>>

Fetching == [pc |-> "fetching", result |-> <<>>]
Fetched(result) == [pc |-> "fetched", result |-> result]

ConfirmPrompt(transaction) ==
    [message |-> "confirmReceiptMessage", transaction |-> transaction]
ReceiptConfirmed == [message |-> "receiptConfirmed"]
ReceiptConfirmError == [message |-> "receiptConfirmError"]

One(x) == SetToBag({x})
Top(stack) == stack[Len(stack)]
Pop(stack) == SubSeq(stack, 1, Len(stack) - 1)

\* The list is on screen and can be tapped: the screen is focused, the
\* ActivityIndicator is not shown in its place (line 193), no alert covers it.
ListShown == mounted /\ route = History /\ ~loading /\ alerts = <<>>

\* The screen before its first effects ran, on a device in Jakarta (the app
\* formats for 'id-ID', lines 109 and 114) that persists at most two
\* transactions, the k-th dated FirstDates[k], each with or without receipt.
Init ==
    /\ tz = 7
    /\ storage \in {l \in StoredLists :
            /\ Len(l) <= Len(FirstDates)
            /\ \A k \in 1..Len(l) : l[k].date = FirstDates[k]}
    /\ transactions = <<>>
    /\ loading = TRUE
    /\ mounted = FALSE
    /\ route = History
    /\ loads = EmptyBag
    /\ confirms = EmptyBag
    /\ alerts = <<>>
    /\ shown = {}

\* loadTransactions that keeps a list it already has: the first fetch wins.
LoadFulfilledKeepsList(result) ==
    /\ transactions' = IF transactions = <<>> THEN result ELSE transactions
    /\ loading' = FALSE

\* loadTransactions after getTransactions() resolved with `result`: lines 37-38, 42.
LoadFulfilled(result) ==
    /\ transactions' = result
    /\ loading' = FALSE

\* loadTransactions whose catch falls back to setTransactions([]).
LoadFailedClearsList ==
    /\ transactions' = <<>>
    /\ loading' = FALSE

\* loadTransactions with setLoading(false) at the end of the try, not in a finally.
LoadFailedKeepsLoading ==
    /\ UNCHANGED transactions
    /\ UNCHANGED loading

\* loadTransactions after getTransactions() rejected: lines 39-42.
LoadFailed ==
    /\ UNCHANGED transactions
    /\ loading' = FALSE

\* The mount effects: useEffect and useFocusEffect each call loadTransactions().
Mount ==
    /\ ~mounted
    /\ mounted' = TRUE
    /\ loads' = loads (+) One(Fetching) (+) One(Fetching)
    /\ UNCHANGED <<tz, storage, transactions, loading, route, confirms, alerts, shown>>

\* The screen comes back into focus: the focus effect calls loadTransactions().
ScreenFocus ==
    /\ mounted
    /\ route # History
    /\ BagCardinality(loads) < MaxLoads
    /\ route' = History
    /\ loads' = loads (+) One(Fetching)
    /\ UNCHANGED <<tz, storage, transactions, loading, mounted, confirms, alerts, shown>>

\* getTransactions() of an effect's load reads the persisted transactions.
LoadRead ==
    /\ BagIn(Fetching, loads)
    /\ loads' = (loads (-) One(Fetching)) (+) One(Fetched(getTransactions(storage)))
    /\ UNCHANGED <<tz, storage, transactions, loading, mounted, route, confirms, alerts, shown>>

\* An effect's load continues after its getTransactions() resolved.
LoadResolved ==
    \E l \in BagToSet(loads) :
        /\ l.pc = "fetched"
        /\ LoadFulfilled(l.result)
        /\ loads' = loads (-) One(l)
        /\ UNCHANGED <<tz, storage, mounted, route, confirms, alerts, shown>>

\* An effect's load continues after its getTransactions() rejected.
LoadRejected ==
    /\ BagIn(Fetching, loads)
    /\ LoadFailed
    /\ loads' = loads (-) One(Fetching)
    /\ UNCHANGED <<tz, storage, mounted, route, confirms, alerts, shown>>

\* handleTransactionTap (lines 46-49), from the card's onPress (line 127).
handleTransactionTap ==
    \E i \in 1..Len(transactions) :
        /\ ListShown
        /\ route' = OrderDetail(transactions[i].transaction_id)
        /\ UNCHANGED <<tz, storage, transactions, loading, mounted, loads, confirms, alerts, shown>>

\* handleReceiptConfirm (lines 51-59), from the pending indicator's onPress,
\* which is rendered only for an item without receipt (lines 136-145).
handleReceiptConfirm ==
    \E i \in 1..Len(transactions) :
        /\ ListShown
        /\ ~transactions[i].has_good_receipt
        /\ BagCardinality(confirms) < MaxConfirms
        /\ alerts' = Append(alerts, ConfirmPrompt(transactions[i]))
        /\ UNCHANGED <<tz, storage, transactions, loading, mounted, route, loads, confirms, shown>>

\* A cancel button that is given the confirm button's effect on storage.
PressCancelSaves ==
    /\ alerts # <<>>
    /\ Top(alerts).message = "confirmReceiptMessage"
    /\ alerts' = Pop(alerts)
    /\ storage' = saveTransaction(storage,
          [Top(alerts).transaction EXCEPT !.has_good_receipt = TRUE])
    /\ UNCHANGED <<tz, transactions, loading, mounted, route, loads, confirms, shown>>

\* The prompt's cancel button (line 60).
PressCancel ==
    /\ alerts # <<>>
    /\ Top(alerts).message = "confirmReceiptMessage"
    /\ alerts' = Pop(alerts)
    /\ UNCHANGED <<tz, storage, transactions, loading, mounted, route, loads, confirms, shown>>

\* The prompt's confirm button (lines 61-66): the callback starts its delay.
PressConfirm ==
    /\ alerts # <<>>
    /\ Top(alerts).message = "confirmReceiptMessage"
    /\ alerts' = Pop(alerts)
    /\ confirms' = confirms (+)
          One([pc |-> "delay", transaction |-> Top(alerts).transaction, result |-> <<>>])
    /\ UNCHANGED <<tz, storage, transactions, loading, mounted, route, loads, shown>>

\* The user dismisses a result alert (lines 81, 84).
DismissAlert ==
    /\ alerts # <<>>
    /\ Top(alerts).message # "confirmReceiptMessage"
    /\ alerts' = Pop(alerts)
    /\ UNCHANGED <<tz, storage, transactions, loading, mounted, route, loads, confirms, shown>>

\* updatedTransaction that sets the flag and forgets the confirmed total.
updatedTransactionWithoutTotal(transaction) ==
    [transaction EXCEPT !.has_good_receipt = TRUE]

\* updatedTransaction (lines 69-73).
updatedTransaction(transaction) ==
    [transaction EXCEPT !.has_good_receipt = TRUE,
                        !.good_receipt_total = transaction.total]

\* The delay elapses (line 66) and saveTransaction(updatedTransaction) is called.
DelayElapsed ==
    \E c \in BagToSet(confirms) :
        /\ c.pc = "delay"
        /\ confirms' = (confirms (-) One(c)) (+) One([c EXCEPT !.pc = "save"])
        /\ UNCHANGED <<tz, storage, transactions, loading, mounted, route, loads, alerts, shown>>

\* saveTransaction resolved (line 76); the callback calls loadTransactions() (line 79).
SaveResolved ==
    \E c \in BagToSet(confirms) :
        /\ c.pc = "save"
        /\ storage' = saveTransaction(storage, updatedTransaction(c.transaction))
        /\ confirms' = (confirms (-) One(c)) (+) One([c EXCEPT !.pc = "reload"])
        /\ UNCHANGED <<tz, transactions, loading, mounted, route, loads, alerts, shown>>

\* A catch that shows the success alert.
SaveRejectedShowsSuccess ==
    \E c \in BagToSet(confirms) :
        /\ c.pc = "save"
        /\ confirms' = confirms (-) One(c)
        /\ alerts' = Append(alerts, ReceiptConfirmed)
        /\ UNCHANGED <<tz, storage, transactions, loading, mounted, route, loads, shown>>

\* saveTransaction rejected: the catch of lines 82-85.
SaveRejected ==
    \E c \in BagToSet(confirms) :
        /\ c.pc = "save"
        /\ confirms' = confirms (-) One(c)
        /\ alerts' = Append(alerts, ReceiptConfirmError)
        /\ UNCHANGED <<tz, storage, transactions, loading, mounted, route, loads, shown>>

\* getTransactions() of a confirmation's reload reads the persisted transactions.
ReloadRead ==
    \E c \in BagToSet(confirms) :
        /\ c.pc = "reload"
        /\ confirms' = (confirms (-) One(c)) (+)
              One([c EXCEPT !.pc = "reloaded", !.result = getTransactions(storage)])
        /\ UNCHANGED <<tz, storage, transactions, loading, mounted, route, loads, alerts, shown>>

\* The reload's getTransactions() resolved; loadTransactions() returns and the
\* callback shows the success alert (lines 79-81).
ReloadResolved ==
    \E c \in BagToSet(confirms) :
        /\ c.pc = "reloaded"
        /\ LoadFulfilled(c.result)
        /\ confirms' = confirms (-) One(c)
        /\ alerts' = Append(alerts, ReceiptConfirmed)
        /\ shown' = shown \cup {c.transaction.transaction_id}
        /\ UNCHANGED <<tz, storage, mounted, route, loads>>

\* The reload's getTransactions() rejected: loadTransactions() catches it itself
\* (lines 39-42) and returns, and the callback goes on to line 81.
ReloadRejected ==
    \E c \in BagToSet(confirms) :
        /\ c.pc = "reload"
        /\ LoadFailed
        /\ confirms' = confirms (-) One(c)
        /\ alerts' = Append(alerts, ReceiptConfirmed)
        /\ shown' = shown \cup {c.transaction.transaction_id}
        /\ UNCHANGED <<tz, storage, mounted, route, loads>>

Next ==
    \/ Mount
    \/ ScreenFocus
    \/ LoadRead
    \/ LoadResolved
    \/ LoadRejected
    \/ handleTransactionTap
    \/ handleReceiptConfirm
    \/ PressCancel
    \/ PressConfirm
    \/ DismissAlert
    \/ DelayElapsed
    \/ SaveResolved
    \/ SaveRejected
    \/ ReloadRead
    \/ ReloadResolved
    \/ ReloadRejected

Spec == Init /\ [][Next]_vars

\* The event loop runs the mount effects and every continuation whose promise
\* settled, and every getTransactions() settles.
FairSpec ==
    /\ Spec
    /\ WF_vars(Mount)
    /\ WF_vars(LoadRead \/ LoadRejected)
    /\ WF_vars(LoadResolved)

----------------------------------------------------------------------------
(* The rendering of any persisted list on any device clock: the screen      *)
(* starts on the list and loads it.                                         *)

RenderInit ==
    /\ tz \in TZOffsets
    /\ storage \in StoredLists
    /\ transactions = <<>>
    /\ loading = TRUE
    /\ mounted = FALSE
    /\ route = History
    /\ loads = EmptyBag
    /\ confirms = EmptyBag
    /\ alerts = <<>>
    /\ shown = {}

RenderNext ==
    \/ Mount
    \/ LoadRead
    \/ LoadResolved
    \/ LoadRejected

RenderSpec == RenderInit /\ [][RenderNext]_vars

----------------------------------------------------------------------------
(* What a step did, read off the two states. *)

\* The confirmation c had its saveTransaction resolve.
SaveResolves(c) ==
    /\ c.pc = "save"
    /\ confirms' = (confirms (-) One(c)) (+) One([c EXCEPT !.pc = "reload"])

\* The confirmation c had its saveTransaction reject.
SaveRejects(c) ==
    /\ c.pc = "save"
    /\ confirms' = confirms (-) One(c)

\* The load l of an effect settled (fulfilled when it had fetched, else rejected).
LoadSettles(l) ==
    /\ BagIn(l, loads)
    /\ loads' = loads (-) One(l)

\* The reload of confirmation c settled (fulfilled when it had re-fetched).
ReloadSettles(c) ==
    /\ c.pc \in {"reload", "reloaded"}
    /\ confirms' = confirms (-) One(c)

SomeLoadSettles ==
    \/ \E l \in BagToSet(loads) : LoadSettles(l)
    \/ \E c \in BagToSet(confirms) : ReloadSettles(c)

SomeLoadFails ==
    \/ LoadSettles(Fetching)
    \/ \E c \in BagToSet(confirms) : c.pc = "reload" /\ ReloadSettles(c)

\* An alert with this message was opened.
Opens(message) ==
    /\ Len(alerts') = Len(alerts) + 1
    /\ Top(alerts').message = message

Stored(stored, id) == {i \in 1..Len(stored) : stored[i].transaction_id = id}

HasReceipt(list, id) ==
    \E i \in 1..Len(list) : list[i].transaction_id = id /\ list[i].has_good_receipt

Quiescent == loads = EmptyBag /\ confirms = EmptyBag /\ alerts = <<>>

----------------------------------------------------------------------------
(* Grouping and sorting. *)

\* The places <<j, k>> of the groups that hold the transaction t.
PlacesOf(groups, t) ==
    {p \in (1..Len(groups)) \X (1..MaxTx + 1) :
        p[2] <= Len(groups[p[1]].list) /\ groups[p[1]].list[p[2]] = t}

\* The date a is a later calendar date than b.
LaterDate(a, b) ==
    \/ a[1] > b[1]
    \/ a[1] = b[1] /\ a[2] > b[2]
    \/ a[1] = b[1] /\ a[2] = b[2] /\ a[3] > b[3]

Reordered(list, p) == [i \in 1..Len(list) |-> list[p[i]]]

\* C8: every transaction of the local list is in exactly one date group, the
\* group's key is the calendar date the device's clock showed at the
\* transaction's instant, no group is empty, no two groups share a key, and
\* the groups hold nothing that is not in the list.
C8_Grouping ==
    LET groups == groupedTransactions(transactions, tz)
    IN  /\ \A i \in 1..Len(transactions) :
              Cardinality(PlacesOf(groups, transactions[i])) = 1
        /\ \A j \in 1..Len(groups) :
              /\ groups[j].list # <<>>
              /\ \A k \in 1..Len(groups[j].list) :
                    /\ \E i \in 1..Len(transactions) : transactions[i] = groups[j].list[k]
                    /\ getTime(groups[j].date, tz) <= groups[j].list[k].date
                    /\ groups[j].list[k].date < getTime(groups[j].date, tz) + 24
        /\ \A i, j \in 1..Len(groups) : groups[i].date = groups[j].date => i = j

\* Three transactions loaded, two of them on one local date that is not the
\* UTC date of both, the third on another.
C8_Witness ==
    LET groups == groupedTransactions(transactions, tz)
    IN  /\ Len(transactions) = 3
        /\ Len(groups) = 2
        /\ \E i \in 1..3 :
              toLocaleDateString(transactions[i].date, tz)
                  # toLocaleDateString(transactions[i].date, 0)

\* C9: the section keys are the group keys, each once, every key a later date
\* than the keys after it, and the same whatever the order of the list.
C9_Sorting ==
    LET groups == groupedTransactions(transactions, tz)
        sorted == sortedDates(transactions, tz)
    IN  /\ Len(sorted) = Len(groups)
        /\ {sorted[i] : i \in 1..Len(sorted)} = {groups[j].date : j \in 1..Len(groups)}
        /\ \A i, j \in 1..Len(sorted) : i < j => LaterDate(sorted[i], sorted[j])
        /\ \A p \in Permutations(1..Len(transactions)) :
              sortedDates(Reordered(transactions, p), tz) = sorted

\* Storage returned a transaction of 2024-01-01 before one of 2024-01-02, and
\* the sections are 2024-01-02, then 2024-01-01.
C9_Witness ==
    /\ Len(transactions) >= 2
    /\ toLocaleDateString(transactions[1].date, tz) = <<2024, 1, 1>>
    /\ toLocaleDateString(transactions[2].date, tz) = <<2024, 1, 2>>
    /\ sortedDates(transactions, tz) = << <<2024, 1, 2>>, <<2024, 1, 1>> >>

----------------------------------------------------------------------------
(* Confirmation. *)

\* C1: when the saveTransaction of a confirmation of T resolves, the stored
\* record of T has has_good_receipt = TRUE and good_receipt_total equal to the
\* total T had, in the prompt and in storage, and every other stored
\* transaction is as it was.
C1_ConfirmStoresReceipt ==
    [][\A c \in BagToSet(confirms) : SaveResolves(c) =>
          LET id == c.transaction.transaction_id
          IN  /\ Len(storage') = Len(storage)
              /\ Stored(storage, id) # {}
              /\ \A i \in 1..Len(storage) :
                    IF storage[i].transaction_id = id
                    THEN /\ storage'[i].transaction_id = id
                         /\ storage'[i].has_good_receipt
                         /\ storage'[i].good_receipt_total = c.transaction.total
                         /\ storage'[i].good_receipt_total = storage[i].total
                         /\ storage'[i].total = storage[i].total
                         /\ storage'[i].date = storage[i].date
                    ELSE storage'[i] = storage[i]]_vars

\* TX1 (total 50000) was saved by a confirmation that now reloads, beside a
\* stored transaction that is still without receipt.
C1_Witness ==
    /\ \E c \in BagToSet(confirms) :
          c.pc = "reload" /\ c.transaction.transaction_id = "TX1"
    /\ \E i \in 1..Len(storage) :
          /\ storage[i].transaction_id = "TX1"
          /\ storage[i].has_good_receipt
          /\ storage[i].good_receipt_total = 50000
    /\ \E i \in 1..Len(storage) : ~storage[i].has_good_receipt

\* C2: storage changes only when the saveTransaction of a confirmation
\* resolves; a confirmation starts only from an open prompt for its
\* transaction, which that step closes; and every stored transaction with
\* receipt has good_receipt_total equal to its total.
C2_ReceiptOnlyByConfirmation ==
    [][/\ storage' # storage => \E c \in BagToSet(confirms) : SaveResolves(c)
       /\ \A c \in BagToSet(confirms') :
             CopiesIn(c, confirms') > CopiesIn(c, confirms) /\ c.pc = "delay" =>
                /\ alerts # <<>>
                /\ Top(alerts) = ConfirmPrompt(c.transaction)
                /\ alerts' = Pop(alerts)
       /\ \A c \in BagToSet(confirms') :
             CopiesIn(c, confirms') > CopiesIn(c, confirms) /\ c.pc = "save" =>
                CopiesIn([c EXCEPT !.pc = "delay"], confirms) > 0
       /\ \A i \in 1..Len(storage') :
             storage'[i].has_good_receipt =>
                storage'[i].good_receipt_total = storage'[i].total]_vars

\* The view stored one receipt after its confirmation; the user then tapped
\* the pending indicator of another transaction, whose prompt is open, and
\* that transaction is stored without receipt.
C2_Witness ==
    /\ shown # {}
    /\ confirms = EmptyBag
    /\ alerts # <<>>
    /\ Top(alerts).message = "confirmReceiptMessage"
    /\ Top(alerts).transaction.transaction_id \notin shown
    /\ ~HasReceipt(storage, Top(alerts).transaction.transaction_id)
    /\ \E id \in shown : HasReceipt(storage, id)

\* C3: once the success alert of a confirmation of T was shown, no prompt for
\* T is opened and no saveTransaction of T resolves.
C3_NoPromptOnceConfirmed ==
    [][/\ Opens("confirmReceiptMessage") =>
             Top(alerts').transaction.transaction_id \notin shown
       /\ \A c \in BagToSet(confirms) :
             SaveResolves(c) => c.transaction.transaction_id \notin shown]_vars

----------------------------------------------------------------------------
(* Failures. *)

\* C4, as claimed: after any load that fails, no alert was opened and the
\* local list is empty.
C4_FailedLoadEmptiesList ==
    [][SomeLoadFails =>
          /\ ~Opens("receiptConfirmError")
          /\ transactions' = <<>>]_vars

\* C4, amended: a load that fails opens no error alert, clears the loading
\* indicator and leaves the local list as it was, which is empty when no load
\* had settled before.
C4_FailedLoadKeepsList ==
    [][SomeLoadFails =>
          /\ ~Opens("receiptConfirmError")
          /\ ~loading'
          /\ transactions' = transactions
          /\ (loading => transactions' = <<>>)]_vars

\* Every load has failed: the list is empty although transactions are stored.
C4_Witness ==
    /\ mounted
    /\ ~loading
    /\ loads = EmptyBag
    /\ confirms = EmptyBag
    /\ storage # <<>>
    /\ transactions = <<>>

\* C5, as claimed: a confirmation whose save rejects opens the error alert and
\* leaves the local list; and the success alert is opened only when the
\* re-fetch of a confirmation is fulfilled.
C5_SuccessOnlyAfterRefetch ==
    [][/\ \A c \in BagToSet(confirms) : SaveRejects(c) =>
             /\ alerts' = Append(alerts, ReceiptConfirmError)
             /\ transactions' = transactions
       /\ Opens("receiptConfirmed") =>
             \E c \in BagToSet(confirms) : c.pc = "reloaded" /\ ReloadSettles(c)]_vars

\* C5, amended: a confirmation whose save rejects opens the error alert, not
\* the success alert, and leaves the local list and storage; the error alert
\* is opened by nothing else; and the success alert is opened only when the
\* reload of a confirmation whose save resolved settles, fulfilled or not.
C5_SuccessOnlyAfterSave ==
    [][/\ \A c \in BagToSet(confirms) : SaveRejects(c) =>
             /\ alerts' = Append(alerts, ReceiptConfirmError)
             /\ transactions' = transactions
             /\ storage' = storage
       /\ Opens("receiptConfirmError") =>
             \E c \in BagToSet(confirms) : SaveRejects(c)
       /\ Opens("receiptConfirmed") =>
             \E c \in BagToSet(confirms) :
                /\ ReloadSettles(c)
                /\ HasReceipt(storage, c.transaction.transaction_id)]_vars

\* The error alert is open, the list is loaded and shows no receipt, and
\* nothing was stored.
C5_Witness ==
    /\ alerts # <<>>
    /\ Top(alerts).message = "receiptConfirmError"
    /\ transactions # <<>>
    /\ transactions = storage
    /\ \A i \in 1..Len(storage) : ~storage[i].has_good_receipt

----------------------------------------------------------------------------
(* Loading and races. *)

\* C6: loading is TRUE at the start and changes only from TRUE to FALSE, in a
\* step in which a load settles; every step in which a load settles, fulfilled
\* or rejected, leaves it FALSE; and when every getTransactions() settles, it
\* is eventually FALSE for good.
C6_LoadingUntilFirstSettle ==
    /\ loading = TRUE
    /\ [][loading' # loading => loading /\ ~loading' /\ SomeLoadSettles]_vars
    /\ [][SomeLoadSettles => ~loading']_vars
    /\ <>[](~loading)

\* The indicator is off while a focus load and a confirmation's reload are
\* in flight.
C6_Witness ==
    /\ ~loading
    /\ BagIn(Fetching, loads)
    /\ \E c \in BagToSet(confirms) : c.pc = "reload"

\* C7: the local list changes only in a step in which a fetch that was
\* fulfilled completes, and every such step, of an effect's load or of a
\* confirmation's reload, whatever else is in flight and whichever started
\* first, leaves the list equal to that fetch's result and every other fetch
\* in flight.
C7_LastWriteWins ==
    [][/\ transactions' # transactions =>
             \/ \E l \in BagToSet(loads) : l.pc = "fetched" /\ LoadSettles(l)
             \/ \E c \in BagToSet(confirms) : c.pc = "reloaded" /\ ReloadSettles(c)
       /\ \A l \in BagToSet(loads) :
             l.pc = "fetched" /\ LoadSettles(l) =>
                transactions' = l.result /\ confirms' = confirms
       /\ \A c \in BagToSet(confirms) :
             c.pc = "reloaded" /\ ReloadSettles(c) =>
                transactions' = c.result /\ loads' = loads]_vars

\* A load that fetched before the save and a reload that fetched after it are
\* both about to complete, and the list on screen is the older one.
C7_Witness ==
    \E l \in BagToSet(loads), c \in BagToSet(confirms) :
        /\ l.pc = "fetched"
        /\ c.pc = "reloaded"
        /\ l.result # c.result
        /\ transactions = l.result
        /\ c.result = storage

\* C10: with nothing in flight and no alert open, every transaction whose
\* success alert was shown is in the local list with has_good_receipt = TRUE.
C10_ViewConverges ==
    Quiescent => \A id \in shown : HasReceipt(transactions, id)

====
